---------------------------- MODULE Spec2Model ----------------------------
(***************************************************************************)
(* Clinic appointment scheduling (Flask + SQLAlchemy on SQLite).           *)
(*                                                                         *)
(* The persisted tables are the state.  Every request handler of           *)
(* src/app.py is one action, except the handlers that read and later       *)
(* write in separate database statements with no lock held in between      *)
(* (a SELECT opens no transaction under the sqlite3 driver): those are     *)
(* two actions, the reads and the commit, and requests of several workers  *)
(* (the server is threaded) interleave between them.                       *)
(*                                                                         *)
(* Dates are day numbers, times of day are minutes after midnight.         *)
(***************************************************************************)
EXTENDS Integers, Sequences, FiniteSets, TLC

\* ------------------------------------------------------------------ bounds
\* Largest number of rows of the appointments table.
MaxAppts == 2

\* ------------------------------------------------------- program constants
\* range(7): the grid and the availability form cover today .. today+6.
HorizonDays == 7
\* appt_time.hour == 8 / slot_time.hour == 8: the morning shift.
MorningHour == 8
\* appt_time.hour == 16 / slot_time.hour == 16: the evening shift.
EveningHour == 16

\* ------------------------------------------------------------- input sets
Patients == {1, 2}
Doctors  == {1, 2}
Workers  == {1, 2}
Roles    == {"patient", "doctor"}

\* A principal is what load_user gives: the session's role and the id of a
\* row of that role's account table.
Principals ==
  [role : {"patient"}, id : Patients] \cup [role : {"doctor"}, id : Doctors]

\* The fields '%Y-%m-%d' and '%H:%M:%S' parse, with the values they parse to.
DateTokens == {"2025-09-24", "2025-09-25"}
TimeTokens == {"08:00:00", "08:12:00", "12:00:00", "16:00:00"}

\* A submitted selected_slot, as the list of its '_'-separated fields.
\* <<>> is the empty (or missing) form field.
SlotInputs ==
  { <<>>,
    <<"2025-09-24", "08:00:00">>,
    <<"2025-09-24", "08:12:00">>,
    <<"2025-09-24", "12:00:00">>,
    <<"2025-09-24", "16:00:00">>,
    <<"2025-09-25", "08:00:00">>,
    <<"2025-09-24", "8am">>,
    <<"2025-09-24">> }

\* The boxes ticked on an availability form: pairs <<days after today, shift>>.
FormInputs ==
  { {},
    {<<0, "morning">>},
    {<<0, "evening">>} }

Payloads == {"flu", "cold"}

VARIABLES
  today,        \* date.today()
  accounts,     \* rows of the tables patients and doctors, as principals
  session,      \* per browser: the session cookie (role, _user_id)
  suspended,    \* ids of the patients with is_blacklisted
  blacklisted,  \* ids of the doctors with is_blacklisted
  avail,        \* table doctor_availability
  appts,        \* table appointments
  treatments,   \* table treatments
  req           \* per worker: the request it is handling or handled last

vars ==
  <<today, accounts, session, suspended, blacklisted, avail, appts,
    treatments, req>>

\* ------------------------------------------------------------------ values
Idle == [op |-> "none", pc |-> "idle"]
Done(op, code) == [op |-> op, pc |-> "done", code |-> code]
Free(w) == req[w].pc # "commit"

\* @login_required: load_user finds the row of the session's user id in the
\* table of the session's role; without it the request is sent to the login
\* page before the handler runs.
LoggedIn(p) == p \in accounts

\* The browsers that hold a session cookie, and the cookie of a browser
\* that has not logged in (no 'role', no '_user_id').  Specifications that
\* leave login out give each handler the principal load_user returns and
\* keep the cookies empty.
Browsers == {1, 2}
NoSession == [role |-> "none", user_id |-> 0]

\* db.get_or_404(Doctor, doctor_id) / db.get_or_404(Patient, patient_id)
DoctorAccount(doctor_id)   == [role |-> "doctor", id |-> doctor_id]
PatientAccount(patient_id) == [role |-> "patient", id |-> patient_id]

\* The primary key SQLite gives a new row: max(rowid) + 1.
NextId(rows) ==
  IF rows = {} THEN 1
  ELSE (CHOOSE i \in {r.id : r \in rows} : \A r \in rows : r.id <= i) + 1

\* Query.first() with no ORDER BY: any of the matching rows, "none" if none.
NoRow == [id |-> 0]
First(rows) == IF rows = {} THEN {NoRow} ELSE rows

Hour(t) == t \div 60

\* datetime.strptime(date_str, '%Y-%m-%d').date(); -1 stands for ValueError.
StrpDate(s) ==
  CASE s = "2025-09-24" -> 0
    [] s = "2025-09-25" -> 1
    [] OTHER -> -1

\* datetime.strptime(time_str, '%H:%M:%S').time(); -1 stands for ValueError.
StrpTime(s) ==
  CASE s = "08:00:00" -> 8 * 60
    [] s = "08:12:00" -> 8 * 60 + 12
    [] s = "12:00:00" -> 12 * 60
    [] s = "16:00:00" -> 16 * 60
    [] OTHER -> -1

\* date_str, time_str = selected_slot.split('_') and the two strptime calls:
\* any failure raises inside the try block.
SlotParses(fields) ==
  /\ Len(fields) = 2
  /\ StrpDate(fields[1]) >= 0
  /\ StrpTime(fields[2]) >= 0

\* standard_slots = [time(8, 0), time(16, 0)]
standard_slots == <<8 * 60, 16 * 60>>

\* date_range = [today + timedelta(days=d) for d in range(7)]
date_range == [i \in 1..HorizonDays |-> today + (i - 1)]

InRange(d) == \E i \in 1..HorizonDays : date_range[i] = d


\* ------------------------------------------------------------------ queries
\* DoctorAvailability.query.filter_by(doctor_id=..., date=...)
AvailQuery(doctor_id, day) ==
  {a \in avail : a.doctor = doctor_id /\ a.date = day}

\* Appointment.query.filter_by(doctor_id=..., date=..., time=..., status='Booked')
BookedQuery(doctor_id, day, t) ==
  {a \in appts : /\ a.doctor = doctor_id
                 /\ a.date = day
                 /\ a.time = t
                 /\ a.status = "Booked"}

\* A shift test that looks only at whether the date has an availability row
\* and the hour names a shift, not at the row's flag.
IsWorkingAnyRow(record, t) ==
  record # NoRow /\ Hour(t) \in {MorningHour, EveningHour}

\* A shift test that takes a date with no availability row as worked.
IsWorkingDefaultOpen(record, t) ==
  IF record = NoRow THEN Hour(t) \in {MorningHour, EveningHour}
  ELSE IF Hour(t) = MorningHour /\ record.morning THEN TRUE
  ELSE IF Hour(t) = EveningHour /\ record.evening THEN TRUE
  ELSE FALSE

\* The shift test of both the booking validation and the grid: the hour of
\* the time and the matching flag of the availability row, if there is a row.
IsWorking(record, t) ==
  IF record = NoRow THEN FALSE
  ELSE IF Hour(t) = MorningHour /\ record.morning THEN TRUE
  ELSE IF Hour(t) = EveningHour /\ record.evening THEN TRUE
  ELSE FALSE

\* ------------------------------------------------- book_appointment (POST)
\* What the validation of a submission ends in, given the availability row
\* the first() query returned; "Pass" goes on to the insert.
\* The checks of a booking without the role check at the top.
BookOutcomeAnyRole(p, doctor_id, fields, avail_record) ==
  IF DoctorAccount(doctor_id) \notin accounts THEN "NotFound"
  ELSE IF doctor_id \in blacklisted THEN "DoctorBlacklisted"
  ELSE IF fields = <<>> THEN "NoSlotSelected"
  ELSE IF ~SlotParses(fields) THEN "Error"
  ELSE IF ~IsWorking(avail_record, StrpTime(fields[2])) THEN "DoctorNotWorking"
  ELSE IF BookedQuery(doctor_id, StrpDate(fields[1]), StrpTime(fields[2])) # {}
    THEN "SlotTaken"
  ELSE "Pass"

BookOutcome(p, doctor_id, fields, avail_record) ==
  IF p.role = "doctor" THEN "DoctorsCannotBook"
  ELSE IF DoctorAccount(doctor_id) \notin accounts THEN "NotFound"
  ELSE IF doctor_id \in blacklisted THEN "DoctorBlacklisted"
  ELSE IF fields = <<>> THEN "NoSlotSelected"
  ELSE IF ~SlotParses(fields) THEN "Error"
  ELSE IF ~IsWorking(avail_record, StrpTime(fields[2])) THEN "DoctorNotWorking"
  ELSE IF BookedQuery(doctor_id, StrpDate(fields[1]), StrpTime(fields[2])) # {}
    THEN "SlotTaken"
  ELSE "Pass"

\* Rows the table will hold once the inserts in flight are committed.
Committed == Cardinality(appts)
InFlightBookings ==
  Cardinality({w \in DOMAIN req : req[w].pc = "commit" /\ req[w].op = "book"})

\* The request up to the line before db.session.add: the role and blacklist
\* checks, the parse, and the two validation queries.
BookSubmit(w, p, doctor_id, fields) ==
  /\ Free(w)
  /\ LoggedIn(p)
  /\ \E avail_record \in
         (IF SlotParses(fields)
            THEN First(AvailQuery(doctor_id, StrpDate(fields[1])))
            ELSE {NoRow}) :
       LET code == BookOutcome(p, doctor_id, fields, avail_record) IN
         IF code = "Pass"
           THEN /\ Committed + InFlightBookings < MaxAppts
                /\ req' = [req EXCEPT ![w] =
                             [op |-> "book", pc |-> "commit",
                              patient |-> p.id, doctor |-> doctor_id,
                              date |-> StrpDate(fields[1]),
                              time |-> StrpTime(fields[2])]]
           ELSE req' = [req EXCEPT ![w] = Done("book", code)]
  /\ UNCHANGED <<today, accounts, session, suspended, blacklisted, avail, appts, treatments>>

\* db.session.add(new_appt); db.session.commit()
BookCommit(w) ==
  /\ req[w].pc = "commit"
  /\ req[w].op = "book"
  /\ appts' = appts \cup
       {[id |-> NextId(appts), patient |-> req[w].patient,
         doctor |-> req[w].doctor, date |-> req[w].date,
         time |-> req[w].time, status |-> "Booked"]}
  /\ req' = [req EXCEPT ![w] = Done("book", "Booked")]
  /\ UNCHANGED <<today, accounts, session, suspended, blacklisted, avail, treatments>>

\* A commit that reports the error but whose INSERT stays.
BookCommitErrorKeepsRow(w) ==
  /\ req[w].pc = "commit"
  /\ req[w].op = "book"
  /\ appts' = appts \cup
       {[id |-> NextId(appts), patient |-> req[w].patient,
         doctor |-> req[w].doctor, date |-> req[w].date,
         time |-> req[w].time, status |-> "Booked"]}
  /\ req' = [req EXCEPT ![w] = Done("book", "Error")]
  /\ UNCHANGED <<today, accounts, session, suspended, blacklisted, avail, treatments>>

\* db.session.commit() raising (the database stays locked by another writer
\* past the driver's timeout): the except branch flashes the error and
\* rolls the INSERT back.
BookCommitError(w) ==
  /\ req[w].pc = "commit"
  /\ req[w].op = "book"
  /\ req' = [req EXCEPT ![w] = Done("book", "Error")]
  /\ UNCHANGED <<today, accounts, session, suspended, blacklisted, avail, appts, treatments>>

\* The whole POST request with no other request between its validation
\* queries and its commit.
BookAppointment(w, p, doctor_id, fields) ==
  /\ Free(w)
  /\ LoggedIn(p)
  /\ \E avail_record \in
         (IF SlotParses(fields)
            THEN First(AvailQuery(doctor_id, StrpDate(fields[1])))
            ELSE {NoRow}) :
       LET code == BookOutcome(p, doctor_id, fields, avail_record) IN
         IF code = "Pass"
           THEN /\ Committed + InFlightBookings < MaxAppts
                /\ appts' = appts \cup
                     {[id |-> NextId(appts), patient |-> p.id,
                       doctor |-> doctor_id, date |-> StrpDate(fields[1]),
                       time |-> StrpTime(fields[2]), status |-> "Booked"]}
                /\ req' = [req EXCEPT ![w] = Done("book", "Booked")]
           ELSE /\ req' = [req EXCEPT ![w] = Done("book", code)]
                /\ UNCHANGED appts
  /\ UNCHANGED <<today, accounts, session, suspended, blacklisted, avail, treatments>>

\* --------------------------------------------------- book_appointment (GET)
\* booked_slots = set((appt.date, appt.time) for appt in existing_appts)
BookedSlots(doctor_id) ==
  {<<a.date, a.time>> :
     a \in {b \in appts : /\ b.doctor = doctor_id
                          /\ InRange(b.date)
                          /\ b.status = "Booked"}}

\* avail_lookup.get(day), where avail_lookup = { a.date: a for a in
\* avail_settings }: the row of that date, one of them if the date has
\* several (which one is the query's order), none if it has none.
DaySettings(doctor_id, day) == First(AvailQuery(doctor_id, day))

\* One entry of a day's 'slots' list.
GridSlot(day_settings, booked_slots, day, slot_time) ==
  LET is_booked  == <<day, slot_time>> \in booked_slots
      is_working == IsWorking(day_settings, slot_time)
  IN  [time |-> slot_time, is_available |-> is_working /\ ~is_booked]

\* slots_for_day
SlotsForDay(doctor_id, day, day_settings) ==
  [date  |-> day,
   slots |-> [j \in 1..Len(standard_slots) |->
                GridSlot(day_settings, BookedSlots(doctor_id), day,
                         standard_slots[j])]]

\* availability_data built only from the days that have a row in
\* avail_lookup.
RECURSIVE AvailabilityDataOfRows(_, _)
AvailabilityDataOfRows(doctor_id, i) ==
  IF i > HorizonDays THEN {<<>>}
  ELSE IF AvailQuery(doctor_id, date_range[i]) = {}
    THEN AvailabilityDataOfRows(doctor_id, i + 1)
  ELSE { <<SlotsForDay(doctor_id, date_range[i], day_settings)>> \o rest :
           day_settings \in DaySettings(doctor_id, date_range[i]),
           rest \in AvailabilityDataOfRows(doctor_id, i + 1) }

\* availability_data from the i-th day of date_range on: every list the
\* outer loop may build.
RECURSIVE AvailabilityData(_, _)
AvailabilityData(doctor_id, i) ==
  IF i > HorizonDays THEN {<<>>}
  ELSE { <<SlotsForDay(doctor_id, date_range[i], day_settings)>> \o rest :
           day_settings \in DaySettings(doctor_id, date_range[i]),
           rest \in AvailabilityData(doctor_id, i + 1) }

\* A GET request that resolves the grid without looking at is_blacklisted.
BookPageAnyDoctor(w, p, doctor_id) ==
  /\ Free(w)
  /\ LoggedIn(p)
  /\ IF p.role = "doctor"
       THEN req' = [req EXCEPT ![w] = Done("grid", "DoctorsCannotBook")]
     ELSE IF DoctorAccount(doctor_id) \notin accounts
       THEN req' = [req EXCEPT ![w] = Done("grid", "NotFound")]
     ELSE \E availability_data \in AvailabilityData(doctor_id, 1) :
            req' = [req EXCEPT ![w] =
                      [op |-> "grid", pc |-> "done", code |-> "Page",
                       doctor |-> doctor_id, grid |-> availability_data]]
  /\ UNCHANGED <<today, accounts, session, suspended, blacklisted, avail, appts, treatments>>

\* The GET request: the grid page, unless the role or the blacklist check
\* turns the request away first.
BookPage(w, p, doctor_id) ==
  /\ Free(w)
  /\ LoggedIn(p)
  /\ IF p.role = "doctor"
       THEN req' = [req EXCEPT ![w] = Done("grid", "DoctorsCannotBook")]
     ELSE IF DoctorAccount(doctor_id) \notin accounts
       THEN req' = [req EXCEPT ![w] = Done("grid", "NotFound")]
     ELSE IF doctor_id \in blacklisted
       THEN req' = [req EXCEPT ![w] = Done("grid", "DoctorBlacklisted")]
     ELSE \E availability_data \in AvailabilityData(doctor_id, 1) :
            req' = [req EXCEPT ![w] =
                      [op |-> "grid", pc |-> "done", code |-> "Page",
                       doctor |-> doctor_id, grid |-> availability_data]]
  /\ UNCHANGED <<today, accounts, session, suspended, blacklisted, avail, appts, treatments>>

\* ---------------------------------------------------- provide_availability
\* request.form.get('morning_<day>') == 'on', for the i-th day of the form.
MorningStatus(form, i) == <<i - 1, "morning">> \in form
EveningStatus(form, i) == <<i - 1, "evening">> \in form

\* Whether the loop body leaves something to flush for the row it found:
\* a new row, or a flag that changes.
NeedsWrite(row, form, i) ==
  IF row = NoRow THEN TRUE
  ELSE row.morning # MorningStatus(form, i) \/ row.evening # EveningStatus(form, i)

\* What the loop body writes for one day: a new row if the lookup found
\* none (db.session.add), the two flags either way.
WriteDay(table, doctor_id, day, row, morning_status, evening_status) ==
  IF row = NoRow
    THEN table \cup {[id |-> NextId(table), doctor |-> doctor_id, date |-> day,
                      morning |-> morning_status, evening |-> evening_status]}
    ELSE {IF a.id = row.id
            THEN [a EXCEPT !.morning = morning_status, !.evening = evening_status]
            ELSE a : a \in table}

\* The tables the loop may leave from its i-th day on (one per choice of
\* first() among a day's rows).
RECURSIVE LoopFrom(_, _, _, _, _)
LoopFrom(table, doctor_id, base, form, i) ==
  IF i > HorizonDays THEN {table}
  ELSE UNION
    { LoopFrom(WriteDay(table, doctor_id, base + (i - 1), row,
                        MorningStatus(form, i), EveningStatus(form, i)),
               doctor_id, base, form, i + 1)
        : row \in First({a \in table :
                           a.doctor = doctor_id /\ a.date = base + (i - 1)}) }

\* The days whose lookup need not leave a write.
CleanDay(doctor_id, form, i) ==
  \E row \in First(AvailQuery(doctor_id, date_range[i])) : ~NeedsWrite(row, form, i)

\* The loop up to its first pending write.  Each day's lookup is its own
\* SELECT; the first write that is flushed takes the database's write lock,
\* so only the lookups up to there run unprotected.
AvailabilitySubmit(w, p, form) ==
  /\ Free(w)
  /\ LoggedIn(p)
  /\ IF p.role # "doctor"
       THEN req' = [req EXCEPT ![w] = Done("avail", "AccessDenied")]
     ELSE \/ /\ \A i \in 1..HorizonDays : CleanDay(p.id, form, i)
             /\ req' = [req EXCEPT ![w] = Done("avail", "Saved")]
          \/ \E k \in 1..HorizonDays :
               /\ \A j \in 1..(k - 1) : CleanDay(p.id, form, j)
               /\ \E row \in First(AvailQuery(p.id, date_range[k])) :
                    /\ NeedsWrite(row, form, k)
                    /\ req' = [req EXCEPT ![w] =
                                 [op |-> "avail", pc |-> "commit",
                                  doctor |-> p.id, form |-> form,
                                  base |-> today, day |-> k,
                                  found |-> row.id]]
  /\ UNCHANGED <<today, accounts, session, suspended, blacklisted, avail, appts, treatments>>

\* The rest of the loop and db.session.commit(), under the write lock: the
\* pending write of day k as its (possibly stale) lookup decided it, then
\* the later days with fresh lookups.
AvailabilityCommit(w) ==
  /\ req[w].pc = "commit"
  /\ req[w].op = "avail"
  /\ LET r == req[w]
         found == IF r.found = 0 THEN NoRow
                  ELSE CHOOSE a \in avail : a.id = r.found
     IN  avail' \in
           LoopFrom(WriteDay(avail, r.doctor, r.base + (r.day - 1), found,
                             MorningStatus(r.form, r.day),
                             EveningStatus(r.form, r.day)),
                    r.doctor, r.base, r.form, r.day + 1)
  /\ req' = [req EXCEPT ![w] = Done("avail", "Saved")]
  /\ UNCHANGED <<today, accounts, session, suspended, blacklisted, appts, treatments>>

\* A submission that also cancels the doctor's Booked appointments of the
\* form's days whose shift it leaves unticked.
ProvideAvailabilityCancelsClosed(w, p, form) ==
  /\ Free(w)
  /\ LoggedIn(p)
  /\ IF p.role # "doctor"
       THEN /\ req' = [req EXCEPT ![w] = Done("avail", "AccessDenied")]
            /\ UNCHANGED <<avail, appts>>
       ELSE /\ avail' \in LoopFrom(avail, p.id, today, form, 1)
            /\ appts' =
                 {IF /\ a.doctor = p.id
                     /\ a.status = "Booked"
                     /\ InRange(a.date)
                     /\ ~ \/ /\ Hour(a.time) = MorningHour
                             /\ <<a.date - today, "morning">> \in form
                          \/ /\ Hour(a.time) = EveningHour
                             /\ <<a.date - today, "evening">> \in form
                    THEN [a EXCEPT !.status = "Cancelled"]
                    ELSE a : a \in appts}
            /\ req' = [req EXCEPT ![w] = Done("avail", "Saved")]
  /\ UNCHANGED <<today, accounts, session, suspended, blacklisted, treatments>>

\* The whole request with no other request between its lookups and its
\* commit: every day's lookup is fresh.
ProvideAvailability(w, p, form) ==
  /\ Free(w)
  /\ LoggedIn(p)
  /\ IF p.role # "doctor"
       THEN /\ req' = [req EXCEPT ![w] = Done("avail", "AccessDenied")]
            /\ UNCHANGED avail
       ELSE /\ avail' \in LoopFrom(avail, p.id, today, form, 1)
            /\ req' = [req EXCEPT ![w] = Done("avail", "Saved")]
  /\ UNCHANGED <<today, accounts, session, suspended, blacklisted, appts, treatments>>

\* ------------------------------------------------------------ db.get_or_404
ApptRow(appt_id) == First({a \in appts : a.id = appt_id})

\* An UPDATE of the status with no WHERE clause: every row is written.
SetStatusEveryRow(appt_id, status) ==
  {[a EXCEPT !.status = status] : a \in appts}

SetStatus(appt_id, status) ==
  {IF a.id = appt_id THEN [a EXCEPT !.status = status] ELSE a : a \in appts}

\* A cancel that removes the appointment instead of marking it.
CancelAppointmentDeletes(w, p, appt_id) ==
  /\ Free(w)
  /\ LoggedIn(p)
  /\ \E appt \in ApptRow(appt_id) :
       LET is_patient_owner == p.role = "patient" /\ appt.patient = p.id
           is_doctor_owner  == p.role = "doctor" /\ appt.doctor = p.id
       IN  IF appt = NoRow
             THEN /\ req' = [req EXCEPT ![w] = Done("cancel", "NotFound")]
                  /\ UNCHANGED appts
           ELSE IF ~(is_patient_owner \/ is_doctor_owner)
             THEN /\ req' = [req EXCEPT ![w] = Done("cancel", "PermissionDenied")]
                  /\ UNCHANGED appts
           ELSE /\ appts' = {a \in appts : a.id # appt_id}
                /\ req' = [req EXCEPT ![w] = Done("cancel", "Cancelled")]
  /\ UNCHANGED <<today, accounts, session, suspended, blacklisted, avail, treatments>>

\* A cancel that gives back a booking cancelled before: the status toggles.
CancelAppointmentToggle(w, p, appt_id) ==
  /\ Free(w)
  /\ LoggedIn(p)
  /\ \E appt \in ApptRow(appt_id) :
       LET is_patient_owner == p.role = "patient" /\ appt.patient = p.id
           is_doctor_owner  == p.role = "doctor" /\ appt.doctor = p.id
       IN  IF appt = NoRow
             THEN /\ req' = [req EXCEPT ![w] = Done("cancel", "NotFound")]
                  /\ UNCHANGED appts
           ELSE IF ~(is_patient_owner \/ is_doctor_owner)
             THEN /\ req' = [req EXCEPT ![w] = Done("cancel", "PermissionDenied")]
                  /\ UNCHANGED appts
           ELSE /\ appts' = SetStatus(appt_id, IF appt.status = "Cancelled"
                                                 THEN "Booked" ELSE "Cancelled")
                /\ req' = [req EXCEPT ![w] = Done("cancel", "Cancelled")]
  /\ UNCHANGED <<today, accounts, session, suspended, blacklisted, avail, treatments>>

\* A cancel whose ownership test compares the ids and not the role.
CancelAppointmentAnyRole(w, p, appt_id) ==
  /\ Free(w)
  /\ LoggedIn(p)
  /\ \E appt \in ApptRow(appt_id) :
       IF appt = NoRow
         THEN /\ req' = [req EXCEPT ![w] = Done("cancel", "NotFound")]
              /\ UNCHANGED appts
       ELSE IF ~(appt.patient = p.id \/ appt.doctor = p.id)
         THEN /\ req' = [req EXCEPT ![w] = Done("cancel", "PermissionDenied")]
              /\ UNCHANGED appts
       ELSE /\ appts' = SetStatus(appt_id, "Cancelled")
            /\ req' = [req EXCEPT ![w] = Done("cancel", "Cancelled")]
  /\ UNCHANGED <<today, accounts, session, suspended, blacklisted, avail, treatments>>

\* ------------------------------------------------------ cancel_appointment
\* The load, the ownership test and the commit of one UPDATE.  A request
\* that interleaves between them changes nothing this handler reads again.
CancelAppointment(w, p, appt_id) ==
  /\ Free(w)
  /\ LoggedIn(p)
  /\ \E appt \in ApptRow(appt_id) :
       LET is_patient_owner == p.role = "patient" /\ appt.patient = p.id
           is_doctor_owner  == p.role = "doctor" /\ appt.doctor = p.id
       IN  IF appt = NoRow
             THEN /\ req' = [req EXCEPT ![w] = Done("cancel", "NotFound")]
                  /\ UNCHANGED appts
           ELSE IF ~(is_patient_owner \/ is_doctor_owner)
             THEN /\ req' = [req EXCEPT ![w] = Done("cancel", "PermissionDenied")]
                  /\ UNCHANGED appts
           ELSE /\ appts' = SetStatus(appt_id, "Cancelled")
                /\ req' = [req EXCEPT ![w] = Done("cancel", "Cancelled")]
  /\ UNCHANGED <<today, accounts, session, suspended, blacklisted, avail, treatments>>

\* A completion that tests the role and not whose appointment it is.
MarkCompleteAnyDoctor(w, p, appt_id) ==
  /\ Free(w)
  /\ LoggedIn(p)
  /\ \E appt \in ApptRow(appt_id) :
       IF p.role # "doctor"
         THEN /\ req' = [req EXCEPT ![w] = Done("complete", "AccessDenied")]
              /\ UNCHANGED appts
       ELSE IF appt = NoRow
         THEN /\ req' = [req EXCEPT ![w] = Done("complete", "NotFound")]
              /\ UNCHANGED appts
       ELSE /\ appts' = SetStatus(appt_id, "Completed")
            /\ req' = [req EXCEPT ![w] = Done("complete", "Completed")]
  /\ UNCHANGED <<today, accounts, session, suspended, blacklisted, avail, treatments>>

\* A completion that reports success without writing the status.
MarkCompleteLeavesStatus(w, p, appt_id) ==
  /\ Free(w)
  /\ LoggedIn(p)
  /\ \E appt \in ApptRow(appt_id) :
       IF p.role # "doctor"
         THEN req' = [req EXCEPT ![w] = Done("complete", "AccessDenied")]
       ELSE IF appt = NoRow
         THEN req' = [req EXCEPT ![w] = Done("complete", "NotFound")]
       ELSE IF appt.doctor # p.id
         THEN req' = [req EXCEPT ![w] = Done("complete", "NotYours")]
       ELSE req' = [req EXCEPT ![w] = Done("complete", "Completed")]
  /\ UNCHANGED <<today, accounts, session, suspended, blacklisted, avail, appts, treatments>>

\* ------------------------------------------------------------ mark_complete
MarkComplete(w, p, appt_id) ==
  /\ Free(w)
  /\ LoggedIn(p)
  /\ \E appt \in ApptRow(appt_id) :
       IF p.role # "doctor"
         THEN /\ req' = [req EXCEPT ![w] = Done("complete", "AccessDenied")]
              /\ UNCHANGED appts
       ELSE IF appt = NoRow
         THEN /\ req' = [req EXCEPT ![w] = Done("complete", "NotFound")]
              /\ UNCHANGED appts
       ELSE IF appt.doctor # p.id
         THEN /\ req' = [req EXCEPT ![w] = Done("complete", "NotYours")]
              /\ UNCHANGED appts
       ELSE /\ appts' = SetStatus(appt_id, "Completed")
            /\ req' = [req EXCEPT ![w] = Done("complete", "Completed")]
  /\ UNCHANGED <<today, accounts, session, suspended, blacklisted, avail, treatments>>

\* -------------------------------------------------- update_treatment (POST)
\* appt.treatment (uselist=False): the treatment row of the appointment,
\* one of them if there are several.
TreatmentOf(appt_id) == First({t \in treatments : t.appt = appt_id})

\* The role test, the two loads (the appointment, its treatment) and the
\* form: what the session holds when it reaches db.session.commit().
TreatmentSubmit(w, p, appt_id, data) ==
  /\ Free(w)
  /\ LoggedIn(p)
  /\ \E appt \in ApptRow(appt_id) :
       IF p.role # "doctor"
         THEN req' = [req EXCEPT ![w] = Done("treat", "AccessDenied")]
       ELSE IF appt = NoRow
         THEN req' = [req EXCEPT ![w] = Done("treat", "NotFound")]
       ELSE IF appt.doctor # p.id
         THEN req' = [req EXCEPT ![w] = Done("treat", "NotYours")]
       ELSE \E treatment \in TreatmentOf(appt_id) :
              req' = [req EXCEPT ![w] =
                        [op |-> "treat", pc |-> "commit", appt |-> appt_id,
                         status |-> appt.status, treatment |-> treatment,
                         data |-> data]]
  /\ UNCHANGED <<today, accounts, session, suspended, blacklisted, avail, appts, treatments>>

\* A commit that waits while another request holds the same appointment for
\* a commit of its own.
TreatmentCommitWaits(w) ==
  /\ req[w].pc = "commit"
  /\ req[w].op = "treat"
  /\ \A v \in DOMAIN req \ {w} :
       ~(req[v].pc = "commit" /\ req[v].op = "treat" /\ req[v].appt = req[w].appt)
  /\ LET r == req[w] IN
       /\ treatments' =
            IF r.treatment = NoRow
              THEN treatments \cup
                     {[id |-> NextId(treatments), appt |-> r.appt,
                       data |-> r.data]}
            ELSE {IF t.id = r.treatment.id
                    THEN [t EXCEPT !.data = r.data] ELSE t : t \in treatments}
       /\ appts' = IF r.status = "Booked"
                     THEN SetStatus(r.appt, "Completed") ELSE appts
       /\ req' = [req EXCEPT ![w] = Done("treat", "Saved")]
  /\ UNCHANGED <<today, accounts, session, suspended, blacklisted, avail>>

\* db.session.commit(): the unit of work writes what differs from what was
\* loaded: an INSERT if no treatment was loaded, an UPDATE of the loaded
\* row's fields that changed, and status = 'Completed' if the loaded
\* status was 'Booked'.  An UPDATE that matches no row (the appointment was
\* deleted since it was loaded) raises and the transaction is rolled back.
TreatmentCommit(w) ==
  /\ req[w].pc = "commit"
  /\ req[w].op = "treat"
  /\ LET r == req[w] IN
       IF r.status = "Booked" /\ ~(\E a \in appts : a.id = r.appt)
         THEN /\ req' = [req EXCEPT ![w] = Done("treat", "Error")]
              /\ UNCHANGED <<appts, treatments>>
         ELSE /\ treatments' =
                   IF r.treatment = NoRow
                     THEN treatments \cup
                            {[id |-> NextId(treatments), appt |-> r.appt,
                              data |-> r.data]}
                   ELSE IF r.treatment.data = r.data THEN treatments
                   ELSE {IF t.id = r.treatment.id
                           THEN [t EXCEPT !.data = r.data] ELSE t
                           : t \in treatments}
              /\ appts' = IF r.status = "Booked"
                            THEN SetStatus(r.appt, "Completed")
                            ELSE appts
              /\ req' = [req EXCEPT ![w] = Done("treat", "Saved")]
  /\ UNCHANGED <<today, accounts, session, suspended, blacklisted, avail>>

\* ------------------------------- admin_blacklist_doctor / admin_whitelist_doctor
AdminBlacklistDoctor(doctor_id) ==
  /\ DoctorAccount(doctor_id) \in accounts
  /\ blacklisted' = blacklisted \cup {doctor_id}
  /\ UNCHANGED <<today, accounts, session, suspended, avail, appts, treatments, req>>

AdminWhitelistDoctor(doctor_id) ==
  /\ DoctorAccount(doctor_id) \in accounts
  /\ blacklisted' = blacklisted \ {doctor_id}
  /\ UNCHANGED <<today, accounts, session, suspended, avail, appts, treatments, req>>

\* ------------------------------------- admin_delete_patient / admin_delete_doctor
\* Appointment.query.filter_by(patient_id=...).delete() is one DELETE
\* statement: it does not load the appointments, so the relationship
\* cascade to their treatments does not run, and SQLite enforces no foreign
\* key.  db.session.delete(patient) then removes the account row.
AdminDeletePatient(patient_id) ==
  /\ PatientAccount(patient_id) \in accounts
  /\ appts' = {a \in appts : a.patient # patient_id}
  /\ accounts' = accounts \ {PatientAccount(patient_id)}
  /\ suspended' = suspended \ {patient_id}
  /\ UNCHANGED <<today, session, blacklisted, avail, treatments, req>>

\* db.session.delete(doctor) sets doctor_id of the doctor's availability
\* rows to NULL (the relationship has no delete cascade); the column is NOT
\* NULL, so with any such row the commit raises and everything is rolled
\* back.
AdminDeleteDoctor(doctor_id) ==
  /\ DoctorAccount(doctor_id) \in accounts
  /\ IF \E a \in avail : a.doctor = doctor_id
       THEN UNCHANGED vars
       ELSE /\ appts' = {a \in appts : a.doctor # doctor_id}
            /\ accounts' = accounts \ {DoctorAccount(doctor_id)}
            /\ blacklisted' = blacklisted \ {doctor_id}
            /\ UNCHANGED <<today, session, suspended, avail, treatments, req>>

\* -------------------------------------------------------------- the system
Init ==
  /\ today = 0
  /\ accounts = Principals
  /\ session = [b \in Browsers |-> NoSession]
  /\ suspended = {}
  /\ blacklisted = {}
  /\ avail = {}
  /\ appts = {}
  /\ treatments = {}
  /\ req = [w \in Workers |-> Idle]

PatientPrincipals == [role : {"patient"}, id : Patients]
DoctorPrincipals  == [role : {"doctor"}, id : Doctors]

Doctor1 == [role |-> "doctor", id |-> 1]

\* The booking engine under concurrent bookings: the booking requests of two
\* workers interleave; doctor 1 declares shifts (doctor 2 never does, and has
\* no availability rows); patients cancel their own bookings; the
\* administrator suspends and restores doctor 1.
NextBooking ==
  \/ \E w \in Workers, p \in PatientPrincipals \cup {Doctor1},
        d \in Doctors, s \in SlotInputs :
       BookSubmit(w, p, d, s)
  \/ \E w \in Workers : BookCommit(w)
  \/ \E w \in Workers, f \in FormInputs : ProvideAvailability(w, Doctor1, f)
  \/ \E w \in Workers, a \in appts :
       CancelAppointment(w, [role |-> "patient", id |-> a.patient], a.id)
  \/ AdminBlacklistDoctor(1)
  \/ AdminWhitelistDoctor(1)

SpecBooking == Init /\ [][NextBooking]_vars

\* The same engine served by one worker, one request at a time, with the
\* grid page among the requests.
InitGrid ==
  /\ today = 0
  /\ accounts = Principals
  /\ session = [b \in Browsers |-> NoSession]
  /\ suspended = {}
  /\ blacklisted = {}
  /\ avail = {}
  /\ appts = {}
  /\ treatments = {}
  /\ req = [w \in {1} |-> Idle]

NextGrid ==
  \/ \E p \in PatientPrincipals \cup {Doctor1}, d \in Doctors : BookPage(1, p, d)
  \/ \E p \in PatientPrincipals, d \in Doctors, s \in SlotInputs :
       BookAppointment(1, p, d, s)
  \/ \E f \in FormInputs : ProvideAvailability(1, Doctor1, f)
  \/ \E a \in appts :
       CancelAppointment(1, [role |-> "patient", id |-> a.patient], a.id)
  \/ \E a \in appts :
       MarkComplete(1, [role |-> "doctor", id |-> a.doctor], a.id)
  \/ AdminBlacklistDoctor(1)
  \/ AdminWhitelistDoctor(1)

SpecGrid == InitGrid /\ [][NextGrid]_vars

\* The table a doctor's first submission of a form leaves.
FirstSubmission(table, doctor_id, form) ==
  CHOOSE t \in LoopFrom(table, doctor_id, 0, form, 1) : TRUE

\* N requests for one slot: doctor 1 works the morning of day 0, the slot
\* is free, and each racer submits the same selected_slot once.
Racers == {1, 2, 3}
RaceSlot == <<"2025-09-24", "08:00:00">>

InitRace ==
  /\ today = 0
  /\ accounts = Principals
  /\ session = [b \in Browsers |-> NoSession]
  /\ suspended = {}
  /\ blacklisted = {}
  /\ avail = FirstSubmission({}, 1, {<<0, "morning">>})
  /\ appts = {}
  /\ treatments = {}
  /\ req = [w \in Racers |-> Idle]

NextRace ==
  \/ \E w \in Racers, p \in PatientPrincipals :
       /\ req[w] = Idle
       /\ BookSubmit(w, p, 1, RaceSlot)
  \/ \E w \in Racers : BookCommit(w)

SpecRace == InitRace /\ [][NextRace]_vars

\* The lifecycle of appointments that were booked: both doctors work the
\* morning of day 0, patient 1 holds a booking with doctor 2 and patient 2
\* one with doctor 1.  Any principal then sends cancel and complete requests
\* for any appointment id (3 is the id of no appointment) and treatment
\* requests for appointment 1 or the missing one, two workers interleaving.
LifecycleIds == {1, 2, 3}
TreatedIds   == {1, 3}

InitLifecycle ==
  /\ today = 0
  /\ accounts = Principals
  /\ session = [b \in Browsers |-> NoSession]
  /\ suspended = {}
  /\ blacklisted = {}
  /\ avail = FirstSubmission(FirstSubmission({}, 1, {<<0, "morning">>}),
                             2, {<<0, "morning">>})
  /\ appts = {[id |-> 1, patient |-> 1, doctor |-> 2, date |-> 0,
               time |-> standard_slots[1], status |-> "Booked"],
              [id |-> 2, patient |-> 2, doctor |-> 1, date |-> 0,
               time |-> standard_slots[1], status |-> "Booked"]}
  /\ treatments = {}
  /\ req = [w \in Workers |-> Idle]

NextLifecycle ==
  \/ \E w \in Workers, p \in Principals, a \in LifecycleIds :
       CancelAppointment(w, p, a)
  \/ \E w \in Workers, p \in Principals, a \in LifecycleIds :
       MarkComplete(w, p, a)
  \/ \E w \in Workers, p \in Principals, a \in TreatedIds, x \in Payloads :
       TreatmentSubmit(w, p, a, x)
  \/ \E w \in Workers : TreatmentCommit(w)

SpecLifecycle == InitLifecycle /\ [][NextLifecycle]_vars


\* Bookings against a doctor's changing shifts: one patient asks either
\* doctor for the morning, the midday or the evening of day 0, or sends a
\* slot that does not parse, two workers interleaving and a commit possibly
\* failing, while doctor 1 declares and withdraws shifts and the
\* administrator suspends and restores doctor 1.
Patient1   == [role |-> "patient", id |-> 1]
ShiftSlots == {<<"2025-09-24", "08:00:00">>, <<"2025-09-24", "12:00:00">>,
               <<"2025-09-24", "16:00:00">>}

MalformedSlots == {<<>>, <<"2025-09-24", "8am">>, <<"2025-09-24">>}

NextShift ==
  \/ \E w \in Workers, d \in Doctors, s \in ShiftSlots :
       BookSubmit(w, Patient1, d, s)
  \/ \E w \in Workers, d \in Doctors, s \in MalformedSlots :
       BookSubmit(w, Patient1, d, s)
  \/ \E w \in Workers : BookCommit(w)
  \/ \E w \in Workers : BookCommitError(w)
  \/ \E w \in Workers, f \in FormInputs : ProvideAvailability(w, Doctor1, f)
  \/ AdminBlacklistDoctor(1)
  \/ AdminWhitelistDoctor(1)

SpecShift == Init /\ [][NextShift]_vars

\* ------------------------------------------------------------------ shifts
\* The shift a time of day belongs to, as the booking validation reads it.
ShiftOf(t) ==
  IF Hour(t) = MorningHour THEN "Morning"
  ELSE IF Hour(t) = EveningHour THEN "Evening"
  ELSE "None"

\* isWorking of (doctor, date, shift): some stored row of the doctor and date
\* carries the shift's flag; false when the date has no row.
StoredFlag(doctor_id, day, shift) ==
  \E a \in avail :
    /\ a.doctor = doctor_id
    /\ a.date = day
    /\ \/ shift = "Morning" /\ a.morning
       \/ shift = "Evening" /\ a.evening

BookedInShift(doctor_id, day, shift) ==
  {a \in appts : /\ a.doctor = doctor_id
                 /\ a.date = day
                 /\ ShiftOf(a.time) = shift
                 /\ a.status = "Booked"}

\* C1: in every reachable state, interleaved booking requests included, at
\* most one appointment with status Booked exists for any doctor, date and
\* shift.
AtMostOneBookedPerSlot ==
  \A a \in appts, b \in appts :
    ( /\ a.status = "Booked"
      /\ b.status = "Booked"
      /\ a.doctor = b.doctor
      /\ a.date = b.date
      /\ ShiftOf(a.time) = ShiftOf(b.time) ) => a = b

\* C2: when the booking requests racing for one open slot have all ended,
\* exactly one of them has booked and every other one was told the slot is
\* taken.
ExactlyOneRacerBooks ==
  (\A w \in Racers : req[w].pc = "done") =>
     /\ Cardinality({w \in Racers : req[w].code = "Booked"}) = 1
     /\ \A w \in Racers : req[w].code \in {"Booked", "SlotTaken"}

\* C3: a patient's booking request for a slot whose shift is not stored as
\* worked (flag false, or no row for the date) ends as "doctor unavailable"
\* and creates no appointment, whether or not a Booked appointment exists for
\* the slot.
DoctorUnavailable == {"DoctorBlacklisted", "DoctorNotWorking"}

NotWorkingIsRejected ==
  [][\A w \in Workers, d \in Doctors, s \in ShiftSlots :
       ( /\ ~StoredFlag(d, StrpDate(s[1]), ShiftOf(StrpTime(s[2])))
         /\ BookSubmit(w, Patient1, d, s) )
       => /\ req'[w].pc = "done"
          /\ req'[w].code \in DoctorUnavailable
          /\ appts' = appts]_vars

\* A request was turned away as "not working" after the doctor withdrew every
\* shift, while an appointment booked earlier is still Booked.
NotWorkingRejectedOverBooked ==
  /\ avail # {}
  /\ \A a \in avail : ~a.morning /\ ~a.evening
  /\ \E a \in appts : a.status = "Booked"
  /\ req[1] = Done("book", "Booked")
  /\ req[2] = Done("book", "DoctorNotWorking")

\* C4: every appointment the booking operation created has time 08:00 or
\* 16:00, a slot time that is neither being rejected.
BookedTimesAreShiftStarts ==
  \A a \in appts : a.time \in {standard_slots[1], standard_slots[2]}


\* --------------------------------------------------------------- lifecycle
IsApptPatient(p, a) == p.role = "patient" /\ a.patient = p.id
IsApptDoctor(p, a)  == p.role = "doctor" /\ a.doctor = p.id

Terminal == {"Cancelled", "Completed"}

\* C5: once an appointment is Cancelled or Completed, no later request
\* changes its status.
TerminalStatusIsFinal ==
  [][\A a \in appts, b \in appts' :
       (a.id = b.id /\ a.status \in Terminal) => b.status = a.status]_vars

\* C6: an appointment that is Cancelled or Completed is never Booked again,
\* and a cancel of a Cancelled appointment or a completion of a Completed one
\* leaves the appointment as it was.
NeverBookedAgain ==
  [][/\ \A a \in appts, b \in appts' :
          (a.id = b.id /\ a.status # "Booked") => b.status # "Booked"
     /\ \A w \in Workers, p \in Principals, a \in appts :
          /\ ( /\ a.status = "Cancelled"
               /\ req'[w].op = "cancel"
               /\ CancelAppointment(w, p, a.id) )
               => a \in appts'
          /\ ( /\ a.status = "Completed"
               /\ req'[w].op = "complete"
               /\ MarkComplete(w, p, a.id) )
               => a \in appts']_vars

\* Both workers' last request was a cancel that went through, and only
\* appointment 1 is not Booked: the second cancel met an appointment that
\* was Cancelled or Completed already.
CancelledTwice ==
  /\ \A w \in Workers : req[w] = Done("cancel", "Cancelled")
  /\ \E a \in appts : a.id = 1 /\ a.status = "Cancelled"
  /\ \E a \in appts : a.id = 2 /\ a.status = "Booked"

\* C7: a cancel by a principal who is neither the appointment's patient in
\* the patient role nor its doctor in the doctor role is refused and changes
\* nothing.
StrangerCannotCancel ==
  [][\A w \in Workers, p \in Principals, a \in appts :
       ( /\ ~IsApptPatient(p, a)
         /\ ~IsApptDoctor(p, a)
         /\ req'[w].op = "cancel"
         /\ CancelAppointment(w, p, a.id) )
       => /\ req'[w] = Done("cancel", "PermissionDenied")
          /\ UNCHANGED <<blacklisted, avail, appts, treatments>>]_vars

\* Both workers refused a cancel and both appointments are Booked.
CancelRefused ==
  /\ \A w \in Workers : req[w] = Done("cancel", "PermissionDenied")
  /\ \A a \in appts : a.status = "Booked"

\* C8: a completion or a treatment request by anyone but the appointment's
\* doctor in the doctor role (any patient, any other doctor) is refused and
\* leaves the status and the treatments as they were.
Refused == {"AccessDenied", "NotYours"}

OnlyOwnDoctorCompletes ==
  [][\A w \in Workers, p \in Principals, a \in appts :
       ~IsApptDoctor(p, a) =>
         /\ (req'[w].op = "complete" /\ MarkComplete(w, p, a.id))
              => /\ req'[w].pc = "done"
                 /\ req'[w].code \in Refused
                 /\ UNCHANGED <<appts, treatments>>
         /\ \A x \in Payloads :
              (req'[w].op = "treat" /\ TreatmentSubmit(w, p, a.id, x))
                => /\ req'[w].pc = "done"
                   /\ req'[w].code \in Refused
                   /\ UNCHANGED <<appts, treatments>>]_vars

\* Another doctor's completion and a patient's treatment request were both
\* refused, nothing having changed.
CompletionRefused ==
  /\ req[1] = Done("complete", "NotYours")
  /\ req[2] = Done("treat", "AccessDenied")
  /\ \A a \in appts : a.status = "Booked"
  /\ treatments = {}

\* C10: when a treatment request of the appointment's doctor has been
\* carried out, the appointment has exactly one treatment, with the fields
\* submitted, and its status is Completed if it was Booked when the request
\* read it and is otherwise unchanged.
TreatmentRecordedOnce ==
  [][\A w \in Workers :
       TreatmentCommit(w) =>
         LET r == req[w] IN
           /\ \E t \in treatments' :
                /\ t.appt = r.appt
                /\ t.data = r.data
                /\ \A u \in treatments' : u.appt = r.appt => u = t
           /\ \A a \in appts, b \in appts' :
                (a.id = r.appt /\ b.id = r.appt) =>
                  b.status = IF r.status = "Booked" THEN "Completed"
                             ELSE a.status]_vars


\* -------------------------------------------------------------------- grid
\* C9: every entry of a grid page shows its slot available exactly when the
\* shift's flag is stored true for the doctor and date and no Booked
\* appointment exists for that doctor, date and shift.
GridShowsOpenSlots ==
  [][\A p \in PatientPrincipals, d \in Doctors :
       (BookPage(1, p, d) /\ req'[1].code = "Page") =>
         \A i \in 1..HorizonDays, j \in 1..Len(standard_slots) :
           LET day   == date_range[i]
               shift == ShiftOf(standard_slots[j])
           IN  req'[1].grid[i].slots[j].is_available
                 = ( /\ StoredFlag(d, day, shift)
                     /\ BookedInShift(d, day, shift) = {} )]_vars


\* ---------------------------------------------------------------- accounts
\* Treatments and account deletion.  The ledger starts as the demonstration
\* data leaves it, with an appointment (off the grid, at 08:12) of a doctor
\* who never declared a shift, and with one appointment booked with doctor 1.
\* The doctor of appointment 1 records treatments, two workers interleaving,
\* patients cancel, and the administrator deletes patient and doctor
\* accounts.
SeedTime == 8 * 60 + 12

InitAccounts ==
  /\ today = 0
  /\ accounts = Principals
  /\ session = [b \in Browsers |-> NoSession]
  /\ suspended = {}
  /\ blacklisted = {}
  /\ avail = FirstSubmission({}, 1, {<<0, "morning">>})
  /\ appts = {[id |-> 1, patient |-> 1, doctor |-> 2, date |-> 0,
               time |-> SeedTime, status |-> "Booked"],
              [id |-> 2, patient |-> 2, doctor |-> 1, date |-> 0,
               time |-> standard_slots[1], status |-> "Booked"]}
  /\ treatments = {}
  /\ req = [w \in Workers |-> Idle]

NextAccounts ==
  \/ \E w \in Workers, a \in appts, x \in Payloads :
       /\ a.id \in TreatedIds
       /\ TreatmentSubmit(w, [role |-> "doctor", id |-> a.doctor], a.id, x)
  \/ \E w \in Workers : TreatmentCommit(w)
  \/ \E w \in Workers, a \in appts :
       CancelAppointment(w, [role |-> "patient", id |-> a.patient], a.id)
  \/ \E p \in Patients : AdminDeletePatient(p)
  \/ \E d \in Doctors : AdminDeleteDoctor(d)

SpecAccounts == InitAccounts /\ [][NextAccounts]_vars

\* C11: in every reachable state every treatment refers to an appointment
\* that exists: deleting an appointment with its patient's or doctor's
\* account deletes its treatment in the same operation.
TreatmentsHaveAppointment ==
  \A t \in treatments : \E a \in appts : a.id = t.appt


\* C12: in every reachable state each appointment has at most one treatment,
\* also after two treatment requests for the same appointment that both
\* read "no treatment yet" before either commits.
AtMostOneTreatmentPerAppointment ==
  \A t \in treatments, u \in treatments : t.appt = u.appt => t = u

\* ------------------------------------------------------------ availability
\* Availability submissions of doctor 1 and of a patient, two workers
\* interleaving between a submission's first lookups and its writes.
NextAvailability ==
  \/ \E w \in Workers, p \in {Doctor1, Patient1}, f \in FormInputs :
       AvailabilitySubmit(w, p, f)
  \/ \E w \in Workers : AvailabilityCommit(w)

SpecAvailability == Init /\ [][NextAvailability]_vars

\* C13: in every reachable state there is at most one availability record
\* per doctor and date, also after two submissions of one doctor that both
\* look the record up before either commits.
AtMostOneRecordPerDay ==
  \A a \in avail, b \in avail :
    (a.doctor = b.doctor /\ a.date = b.date) => a = b


\* ----------------------------------------------------------- booking frame
Tables == <<avail, appts, treatments>>

\* C14: a booking request that ends in a rejection (unavailable, taken,
\* malformed, an error caught while parsing or committing) leaves the
\* appointments, availability records and treatments as they were; one that
\* succeeds adds exactly one appointment, Booked, with the requested patient,
\* doctor, date and time, and changes nothing else.
BookingIsAllOrNothing ==
  [][/\ \A w \in Workers, d \in Doctors, s \in ShiftSlots \cup MalformedSlots :
          BookSubmit(w, Patient1, d, s) =>
            /\ UNCHANGED Tables
            /\ req'[w].pc = "commit" =>
                 /\ req'[w].patient = Patient1.id
                 /\ req'[w].doctor = d
                 /\ req'[w].date = StrpDate(s[1])
                 /\ req'[w].time = StrpTime(s[2])
     /\ \A w \in Workers :
          BookCommitError(w) => UNCHANGED Tables
     /\ \A w \in Workers :
          BookCommit(w) =>
            /\ \E row \in appts' :
                 /\ \A a \in appts : a.id # row.id
                 /\ appts' = appts \cup {row}
                 /\ row.status = "Booked"
                 /\ row.patient = req[w].patient
                 /\ row.doctor = req[w].doctor
                 /\ row.date = req[w].date
                 /\ row.time = req[w].time
            /\ UNCHANGED <<blacklisted, avail, treatments>>]_vars

\* One request booked, the other was told the slot is taken, and the ledger
\* holds the one appointment.
BookedAndTurnedAway ==
  /\ req[1] = Done("book", "Booked")
  /\ req[2] = Done("book", "SlotTaken")
  /\ Cardinality(appts) = 1


\* ---------------------------------------------------------- one at a time
\* Bookings and grid pages handled one at a time, on a ledger that starts
\* empty or as two interleaved first submissions of doctor 1 left it (one ticking the
\* morning of day 0, the other ticking nothing: day 0 has a row of each).
RacedTable ==
  CHOOSE t \in LoopFrom(WriteDay(FirstSubmission({}, 1, {<<0, "morning">>}),
                                 1, 0, NoRow, FALSE, FALSE),
                        1, 0, {}, 2) : TRUE

InitOpenSlot ==
  /\ today = 0
  /\ accounts = Principals
  /\ session = [b \in Browsers |-> NoSession]
  /\ suspended = {}
  /\ blacklisted = {}
  /\ avail \in {{}, RacedTable}
  /\ appts = {}
  /\ treatments = {}
  /\ req = [w \in {1} |-> Idle]

NextOpenSlot ==
  \/ \E p \in PatientPrincipals, d \in Doctors, s \in ShiftSlots :
       BookAppointment(1, p, d, s)
  \/ \E d \in Doctors : BookPage(1, Patient1, d)
  \/ \E f \in FormInputs : ProvideAvailability(1, Doctor1, f)
  \/ \E a \in appts :
       CancelAppointment(1, [role |-> "patient", id |-> a.patient], a.id)
  \/ AdminBlacklistDoctor(1)
  \/ AdminWhitelistDoctor(1)

SpecOpenSlot == InitOpenSlot /\ [][NextOpenSlot]_vars

\* C15: a booking request that runs alone for an open slot (doctor not
\* blacklisted, the shift stored as worked, no Booked appointment for the
\* doctor, date and shift) succeeds, and afterwards a Booked appointment of
\* the requesting patient exists for the slot.
OpenSlotIsBooked ==
  [][\A p \in PatientPrincipals, d \in Doctors, s \in ShiftSlots :
       LET day   == StrpDate(s[1])
           t     == StrpTime(s[2])
       IN  ( /\ d \notin blacklisted
             /\ StoredFlag(d, day, ShiftOf(t))
             /\ BookedInShift(d, day, ShiftOf(t)) = {}
             /\ BookAppointment(1, p, d, s) )
           => /\ req'[1] = Done("book", "Booked")
              /\ \E a \in appts' :
                   /\ a.status = "Booked"
                   /\ a.patient = p.id
                   /\ a.doctor = d
                   /\ a.date = day
                   /\ a.time = t]_vars


\* C16: once a booking for a doctor, date and shift has succeeded, and while
\* that appointment is Booked, every later booking request for the same
\* doctor, date and shift, by any patient, ends as "slot taken" and creates
\* no appointment.
TakenSlotStaysTaken ==
  [][\A p \in PatientPrincipals, d \in Doctors, s \in SlotInputs :
       ( /\ SlotParses(s)
         /\ ShiftOf(StrpTime(s[2])) # "None"
         /\ BookedInShift(d, StrpDate(s[1]), ShiftOf(StrpTime(s[2]))) # {}
         /\ BookAppointment(1, p, d, s) )
       => /\ req'[1] = Done("book", "SlotTaken")
          /\ appts' = appts]_vars


\* C17: a booking request for a blacklisted doctor is rejected and creates no
\* appointment, whatever the doctor's availability and bookings are, and no
\* appointment is committed for a doctor who is blacklisted at the moment of
\* the commit.
BlacklistedIsNeverBooked ==
  [][/\ \A w \in Workers, d \in Doctors, s \in ShiftSlots :
          (d \in blacklisted /\ BookSubmit(w, Patient1, d, s))
            => /\ req'[w] = Done("book", "DoctorBlacklisted")
               /\ appts' = appts
     /\ \A a \in appts' \ appts : a.doctor \notin blacklisted]_vars


\* ------------------------------------------------------- absent records
\* The record of a date whose two flags are false.
BlankRecord(doctor_id, day) ==
  [id |-> 1, doctor |-> doctor_id, date |-> day,
   morning |-> FALSE, evening |-> FALSE]

\* C18: for every doctor and date, what the handlers compute from "no
\* record" and from a record with both flags false is the same: the same
\* grid entries, the same outcome of every booking request, and the shift
\* test false for both shifts.
AbsentRecordIsBlankRecord ==
  \A d \in Doctors, i \in 1..HorizonDays :
    LET day   == date_range[i]
        blank == BlankRecord(d, day)
    IN  /\ \A j \in 1..Len(standard_slots) :
             /\ GridSlot(NoRow, BookedSlots(d), day, standard_slots[j])
                  = GridSlot(blank, BookedSlots(d), day, standard_slots[j])
             /\ ~IsWorking(NoRow, standard_slots[j])
             /\ ~IsWorking(blank, standard_slots[j])
        /\ \A p \in Principals, s \in SlotInputs :
             BookOutcome(p, d, s, NoRow) = BookOutcome(p, d, s, blank)

\* A grid page of doctor 1, whose every row has both flags false, shows
\* nothing available, while doctor 2 has no row at all and a Booked
\* appointment exists.
BlankGridShown ==
  /\ req[1].op = "grid"
  /\ req[1].code = "Page"
  /\ req[1].doctor = 1
  /\ \A i \in 1..HorizonDays, j \in 1..Len(standard_slots) :
       ~req[1].grid[i].slots[j].is_available
  /\ AvailQuery(1, today) # {}
  /\ \A a \in avail : a.doctor = 1 /\ ~a.morning /\ ~a.evening
  /\ \E a \in appts : a.status = "Booked"


\* C19: when a submission of availability has been carried out, the shift
\* test of each of its days gives the flags submitted (until the next
\* submission), and submitting the same form again leaves the state as it
\* is.
SubmittedFlagsAreRead ==
  [][\A w \in Workers :
       AvailabilityCommit(w) =>
         LET r == req[w] IN
           /\ \A i \in 1..HorizonDays :
                \A rec \in First({a \in avail' : /\ a.doctor = r.doctor
                                                  /\ a.date = r.base + (i - 1)}) :
                  /\ IsWorking(rec, standard_slots[1]) = MorningStatus(r.form, i)
                  /\ IsWorking(rec, standard_slots[2]) = EveningStatus(r.form, i)
           /\ LoopFrom(avail', r.doctor, r.base, r.form, 1) = {avail'}]_vars


\* ------------------------------------------------------------------ ledger
\* Every kind of request on one ledger.  It starts with the demonstration
\* appointment (patient 1 with doctor 2, who never declared a shift).
\* Patient 1 books the morning of day 0 with doctor 1; owners cancel, the
\* appointments' doctors complete and record treatments; doctor 1 declares
\* and withdraws the morning; the administrator suspends and restores
\* doctor 1 and deletes accounts.  One worker handles the requests; the
\* administrator's requests fall between a request's reads and its commit.
LedgerForms == {{}, {<<0, "morning">>}}

InitLedger ==
  /\ today = 0
  /\ accounts = Principals
  /\ session = [b \in Browsers |-> NoSession]
  /\ suspended = {}
  /\ blacklisted = {}
  /\ avail = {}
  /\ appts = {[id |-> 1, patient |-> 1, doctor |-> 2, date |-> 0,
               time |-> SeedTime, status |-> "Booked"]}
  /\ treatments = {}
  /\ req = [w \in {1} |-> Idle]

NextLedger ==
  \/ BookSubmit(1, Patient1, 1, RaceSlot)
  \/ BookCommit(1)
  \/ \E a \in appts :
       CancelAppointment(1, [role |-> "patient", id |-> a.patient], a.id)
  \/ \E a \in appts :
       MarkComplete(1, [role |-> "doctor", id |-> a.doctor], a.id)
  \/ \E a \in appts :
       TreatmentSubmit(1, [role |-> "doctor", id |-> a.doctor], a.id, "flu")
  \/ TreatmentCommit(1)
  \/ \E f \in LedgerForms : ProvideAvailability(1, Doctor1, f)
  \/ AdminBlacklistDoctor(1)
  \/ AdminWhitelistDoctor(1)
  \/ AdminDeletePatient(1)
  \/ \E d \in Doctors : AdminDeleteDoctor(d)

SpecLedger == InitLedger /\ [][NextLedger]_vars

ApptIds(rows) == {a.id : a \in rows}

\* C20: the set of appointment identities grows only by a booking that
\* succeeds, the new appointment being Booked, and shrinks only by the
\* deletion of a patient or doctor account: no cancel, completion,
\* treatment, availability or blacklist request creates or deletes an
\* appointment.
LedgerGrowsOnlyByBooking ==
  [][\/ /\ ApptIds(appts') = ApptIds(appts)
        /\ Cardinality(appts') = Cardinality(appts)
     \/ /\ BookCommit(1)
        /\ \E row \in appts' :
             /\ row.id \notin ApptIds(appts)
             /\ appts' = appts \cup {row}
             /\ row.status = "Booked"
     \/ /\ \/ \E p \in Patients : AdminDeletePatient(p)
           \/ \E d \in Doctors : AdminDeleteDoctor(d)
        /\ appts' \subseteq appts]_vars

\* A booking went through and, after account deletions, the ledger is empty
\* while treatments are on file.
LedgerGrewAndShrank ==
  /\ appts = {}
  /\ treatments # {}
  /\ req[1] = Done("book", "Booked")


\* ------------------------------------------------------------- transitions
StatusOf(rows, appt_id) == {a.status : a \in {b \in rows : b.id = appt_id}}

\* C21: a cancel request on a Booked appointment by its own patient or its
\* own doctor sets the status to Cancelled, and a complete request on a
\* Booked appointment by its own doctor sets it to Completed.
OwnersMoveBookedOn ==
  [][\A w \in Workers, p \in Principals, a \in appts :
       /\ ( /\ a.status = "Booked"
            /\ IsApptPatient(p, a) \/ IsApptDoctor(p, a)
            /\ req'[w].op = "cancel"
            /\ CancelAppointment(w, p, a.id) )
          => /\ StatusOf(appts', a.id) = {"Cancelled"}
             /\ req'[w] = Done("cancel", "Cancelled")
       /\ ( /\ a.status = "Booked"
            /\ IsApptDoctor(p, a)
            /\ req'[w].op = "complete"
            /\ MarkComplete(w, p, a.id) )
          => /\ StatusOf(appts', a.id) = {"Completed"}
             /\ req'[w] = Done("complete", "Completed")]_vars

\* Appointment 1 was cancelled by one worker's request and appointment 2
\* completed by the other's.
CancelledAndCompleted ==
  /\ req[1] = Done("cancel", "Cancelled")
  /\ req[2] = Done("complete", "Completed")
  /\ StatusOf(appts, 1) = {"Cancelled"}
  /\ StatusOf(appts, 2) = {"Completed"}


\* C22: no grid is resolved for a doctor who is blacklisted when the page is
\* requested: the request is turned away before the grid's queries, its
\* answer carries no grid, and nothing stored changes.
NoGridForBlacklisted ==
  [][/\ \A d \in Doctors :
          (d \in blacklisted /\ BookPage(1, Patient1, d))
            => /\ req'[1] = Done("grid", "DoctorBlacklisted")
               /\ UNCHANGED <<blacklisted, avail, appts, treatments>>
     /\ ( /\ req'[1] # req[1]
          /\ req'[1].op = "grid"
          /\ req'[1].code = "Page" )
        => req'[1].doctor \notin blacklisted]_vars

\* The page of doctor 1 was refused while the doctor was blacklisted with an
\* open morning on file, which the grid would have shown.
GridRefusedForBlacklisted ==
  /\ req[1] = Done("grid", "DoctorBlacklisted")
  /\ 1 \in blacklisted
  /\ StoredFlag(1, today, "Morning")
  /\ BookedInShift(1, today, "Morning") = {}


\* ------------------------------------------ dashboard / patient_history
\* Largest value of date.today() (days after the first one).
MaxDay == 2

\* The orders .all() may return a set of rows in.
Orderings(rows) ==
  {s \in [1..Cardinality(rows) -> rows] :
     \A i, j \in 1..Cardinality(rows) : i # j => s[i] # s[j]}

\* ORDER BY date, time: rows equal in both come in any order.
DateTimeBefore(a, b) ==
  a.date < b.date \/ (a.date = b.date /\ a.time <= b.time)

OrderByDateTime(rows) ==
  {s \in Orderings(rows) :
     \A i, j \in 1..Cardinality(rows) : i < j => DateTimeBefore(s[i], s[j])}

\* ORDER BY date DESC, time DESC
OrderByDateTimeDesc(rows) ==
  {s \in Orderings(rows) :
     \A i, j \in 1..Cardinality(rows) : i < j => DateTimeBefore(s[j], s[i])}

ListPage(op, list) == [op |-> op, pc |-> "done", code |-> "Page", list |-> list]

\* A patient dashboard that lists the Booked appointments of every date.
DashboardAnyDate(w, p) ==
  /\ Free(w)
  /\ LoggedIn(p)
  /\ IF p.role = "doctor"
       THEN req' = [req EXCEPT ![w] = Done("upcoming", "Redirect")]
       ELSE \E upcoming_appts \in
                OrderByDateTime({a \in appts : /\ a.patient = p.id
                                               /\ a.status = "Booked"}) :
              req' = [req EXCEPT ![w] = ListPage("upcoming", upcoming_appts)]
  /\ UNCHANGED <<today, accounts, session, suspended, blacklisted, avail, appts, treatments>>

\* dashboard: a doctor is sent to the doctor dashboard; anyone else gets
\* upcoming_appts.
Dashboard(w, p) ==
  /\ Free(w)
  /\ LoggedIn(p)
  /\ IF p.role = "doctor"
       THEN req' = [req EXCEPT ![w] = Done("upcoming", "Redirect")]
       ELSE \E upcoming_appts \in
                OrderByDateTime({a \in appts : /\ a.patient = p.id
                                               /\ a.date >= today
                                               /\ a.status = "Booked"}) :
              req' = [req EXCEPT ![w] = ListPage("upcoming", upcoming_appts)]
  /\ UNCHANGED <<today, accounts, session, suspended, blacklisted, avail, appts, treatments>>

\* patient_history
PatientHistory(w, p) ==
  /\ Free(w)
  /\ LoggedIn(p)
  /\ IF p.role # "patient"
       THEN req' = [req EXCEPT ![w] = Done("history", "Redirect")]
       ELSE \E past_appts \in
                OrderByDateTimeDesc({a \in appts :
                                       /\ a.patient = p.id
                                       /\ a.status \in {"Completed", "Cancelled"}}) :
              req' = [req EXCEPT ![w] = ListPage("history", past_appts)]
  /\ UNCHANGED <<today, accounts, session, suspended, blacklisted, avail, appts, treatments>>

\* doctor_dashboard: upcoming_appts (the list of patients treated before is
\* read from the same table and is left out).
DoctorDashboard(w, p) ==
  /\ Free(w)
  /\ LoggedIn(p)
  /\ IF p.role # "doctor"
       THEN req' = [req EXCEPT ![w] = Done("schedule", "AccessDenied")]
       ELSE \E upcoming_appts \in
                OrderByDateTime({a \in appts : /\ a.doctor = p.id
                                               /\ a.date >= today
                                               /\ a.status = "Booked"}) :
              req' = [req EXCEPT ![w] = ListPage("schedule", upcoming_appts)]
  /\ UNCHANGED <<today, accounts, session, suspended, blacklisted, avail, appts, treatments>>

\* Midnight passes: date.today() is the next day.
NextDay ==
  /\ today < MaxDay
  /\ today' = today + 1
  /\ UNCHANGED <<accounts, session, suspended, blacklisted, avail, appts,
                 treatments, req>>

\* The lists of a ledger of four appointments: patient 1 holds the evening
\* of day 0 and the morning of day 1 with doctor 1 and the demonstration
\* appointment (day 0, 08:12) with doctor 2; patient 2 holds the morning of
\* day 1 with doctor 2.  Owners cancel and complete, days pass, and every
\* principal opens every list.
InitLists ==
  /\ today = 0
  /\ accounts = Principals
  /\ session = [b \in Browsers |-> NoSession]
  /\ suspended = {}
  /\ blacklisted = {}
  /\ avail = {}
  /\ appts = {[id |-> 1, patient |-> 1, doctor |-> 2, date |-> 0,
               time |-> SeedTime, status |-> "Booked"],
              [id |-> 2, patient |-> 1, doctor |-> 1, date |-> 0,
               time |-> standard_slots[2], status |-> "Booked"],
              [id |-> 3, patient |-> 1, doctor |-> 1, date |-> 1,
               time |-> standard_slots[1], status |-> "Booked"],
              [id |-> 4, patient |-> 2, doctor |-> 2, date |-> 1,
               time |-> standard_slots[1], status |-> "Booked"]}
  /\ treatments = {}
  /\ req = [w \in {1} |-> Idle]

NextLists ==
  \/ \E p \in Principals : Dashboard(1, p)
  \/ \E p \in Principals : PatientHistory(1, p)
  \/ \E p \in Principals : DoctorDashboard(1, p)
  \/ \E a \in appts :
       CancelAppointment(1, [role |-> "patient", id |-> a.patient], a.id)
  \/ \E a \in appts :
       MarkComplete(1, [role |-> "doctor", id |-> a.doctor], a.id)
  \/ NextDay

SpecLists == InitLists /\ [][NextLists]_vars

\* The rows of a list, and whether it names no row twice.
Listed(list) == {list[i] : i \in DOMAIN list}
NoRepeat(list) == \A i, j \in DOMAIN list : i # j => list[i] # list[j]

\* C23: the upcoming list of a patient and of a doctor holds exactly the
\* principal's Booked appointments dated today or later, by date ascending
\* then time ascending; a patient's history holds exactly the patient's
\* Cancelled and Completed appointments, by date descending then time
\* descending; producing a list changes nothing stored.
ListsShowTheLedger ==
  [][/\ \A p \in PatientPrincipals :
          /\ Dashboard(1, p) =>
               LET list == req'[1].list IN
                 /\ Listed(list) = {a \in appts : /\ a.patient = p.id
                                                  /\ a.status = "Booked"
                                                  /\ a.date >= today}
                 /\ NoRepeat(list)
                 /\ \A i, j \in DOMAIN list :
                      i < j => \/ list[i].date < list[j].date
                               \/ /\ list[i].date = list[j].date
                                  /\ list[i].time <= list[j].time
                 /\ UNCHANGED <<today, accounts, session, suspended, blacklisted, avail, appts, treatments>>
          /\ PatientHistory(1, p) =>
               LET list == req'[1].list IN
                 /\ Listed(list) = {a \in appts : /\ a.patient = p.id
                                                  /\ a.status \in Terminal}
                 /\ NoRepeat(list)
                 /\ \A i, j \in DOMAIN list :
                      i < j => \/ list[i].date > list[j].date
                               \/ /\ list[i].date = list[j].date
                                  /\ list[i].time >= list[j].time
                 /\ UNCHANGED <<today, accounts, session, suspended, blacklisted, avail, appts, treatments>>
     /\ \A p \in DoctorPrincipals :
          DoctorDashboard(1, p) =>
            LET list == req'[1].list IN
              /\ Listed(list) = {a \in appts : /\ a.doctor = p.id
                                               /\ a.status = "Booked"
                                               /\ a.date >= today}
              /\ NoRepeat(list)
              /\ \A i, j \in DOMAIN list :
                   i < j => \/ list[i].date < list[j].date
                            \/ /\ list[i].date = list[j].date
                               /\ list[i].time <= list[j].time
              /\ UNCHANGED <<today, accounts, session, suspended, blacklisted, avail, appts, treatments>>]_vars

\* On day 1 patient 1's upcoming list holds only the morning of day 1, the
\* two appointments of day 0 being still Booked and left out.
YesterdayLeftOut ==
  /\ today = 1
  /\ req[1].op = "upcoming"
  /\ req[1].code = "Page"
  /\ Len(req[1].list) = 1
  /\ req[1].list[1].id = 3
  /\ \A a \in appts : a.status = "Booked"


\* ------------------------------------------------------------- termination
\* Requests of every kind from two workers: patient 1 books the morning of
\* day 0 with doctor 1, owners cancel and complete, the doctor of the first
\* appointment records a treatment, doctor 1 declares the morning.  A worker that has
\* reached its commit goes on to the end of the handler: each request runs on
\* a thread of its own.
TerminationForm == {<<0, "morning">>}

NextTermination ==
  \/ \E w \in Workers : BookSubmit(w, Patient1, 1, RaceSlot)
  \/ \E w \in Workers : BookCommit(w)
  \/ \E w \in Workers : BookCommitError(w)
  \/ \E w \in Workers, a \in appts :
       CancelAppointment(w, [role |-> "patient", id |-> a.patient], a.id)
  \/ \E w \in Workers, a \in appts :
       MarkComplete(w, [role |-> "doctor", id |-> a.doctor], a.id)
  \/ \E w \in Workers, a \in appts :
       /\ a.id = 1
       /\ TreatmentSubmit(w, [role |-> "doctor", id |-> a.doctor], a.id, "flu")
  \/ \E w \in Workers : TreatmentCommit(w)
  \/ \E w \in Workers : AvailabilitySubmit(w, Doctor1, TerminationForm)
  \/ \E w \in Workers : AvailabilityCommit(w)

\* The rest of a handler from its commit on.
CommitStep(w) ==
  \/ BookCommit(w)
  \/ BookCommitError(w)
  \/ TreatmentCommit(w)
  \/ AvailabilityCommit(w)

SpecTermination ==
  /\ Init
  /\ [][NextTermination]_vars
  /\ \A w \in Workers : WF_vars(CommitStep(w))

\* C24: every booking, cancel, complete, treatment and availability request
\* that starts ends with an outcome: a request at its commit can always go
\* on whatever the other requests are doing, it does eventually, and its
\* next step is its end, not another attempt.
EveryRequestEnds ==
  /\ [](\A w \in Workers : req[w].pc = "commit" => ENABLED CommitStep(w))
  /\ \A w \in Workers : (req[w].pc = "commit") ~> (req[w].pc = "done")
  /\ [][\A w \in Workers :
          (req[w].pc = "commit" /\ req'[w] # req[w]) => req'[w].pc = "done"]_vars

\* Both workers' treatment requests for one appointment ended after each had
\* read "no treatment" (two rows are on file), a booking having gone through
\* on declared availability.
RacingRequestsEnded ==
  /\ \A w \in Workers : req[w] = Done("treat", "Saved")
  /\ Cardinality(treatments) = 2
  /\ avail # {}


\* ------------------------------------------------------- grid and booking
\* The submissions that ask for a slot of the grid: a day of the horizon
\* and one of the standard times.
GridSubmissions ==
  {s \in SlotInputs : /\ SlotParses(s)
                      /\ InRange(StrpDate(s[1]))
                      /\ \E j \in 1..Len(standard_slots) :
                           standard_slots[j] = StrpTime(s[2])}

\* C25: in every reachable state, for every doctor who is not blacklisted
\* and every slot of the grid, the grid shows the slot available exactly when
\* a booking request for it, handled with no other request in between, would
\* succeed.
GridAgreesWithBooking ==
  \A d \in Doctors \ blacklisted, s \in GridSubmissions :
    LET day == StrpDate(s[1])
        t   == StrpTime(s[2])
    IN  \A day_settings \in DaySettings(d, day),
           avail_record \in First(AvailQuery(d, day)) :
          GridSlot(day_settings, BookedSlots(d), day, t).is_available
            = (BookOutcome(Patient1, d, s, avail_record) = "Pass")


\* ---------------------------------------------------------- slots reopened
\* The appointments of a doctor, date and shift that are Cancelled or
\* Completed.
ClosedInShift(doctor_id, day, shift) ==
  {a \in appts : /\ a.doctor = doctor_id
                 /\ a.date = day
                 /\ ShiftOf(a.time) = shift
                 /\ a.status \in Terminal}

\* C26: once the Booked appointment of a slot has been cancelled or
\* completed, the doctor still working the shift and not blacklisted, the
\* grid shows the slot available again and the next booking request for it
\* succeeds, its appointment joining the Cancelled and Completed ones of the
\* same doctor, date and shift.
ClosedSlotReopens ==
  [][\A p \in PatientPrincipals, d \in Doctors \ blacklisted,
        s \in GridSubmissions :
       LET day   == StrpDate(s[1])
           t     == StrpTime(s[2])
           shift == ShiftOf(t)
       IN  ( /\ ClosedInShift(d, day, shift) # {}
             /\ BookedInShift(d, day, shift) = {}
             /\ StoredFlag(d, day, shift) )
           => /\ BookAppointment(1, p, d, s)
                   => /\ req'[1] = Done("book", "Booked")
                      /\ BookedInShift(d, day, shift)' # {}
                      /\ ClosedInShift(d, day, shift)' = ClosedInShift(d, day, shift)
              /\ (BookPage(1, p, d) /\ req'[1].code = "Page")
                   => \A i \in 1..HorizonDays, j \in 1..Len(standard_slots) :
                        (date_range[i] = day /\ standard_slots[j] = t)
                          => req'[1].grid[i].slots[j].is_available]_vars


ReferencesExist ==
  /\ \A a \in appts : /\ PatientAccount(a.patient) \in accounts
                      /\ DoctorAccount(a.doctor) \in accounts
  /\ \A r \in avail : DoctorAccount(r.doctor) \in accounts


\* ------------------------------------------------------ availability frame
\* Two doctors keep their schedules over several days: doctor 1 opens and
\* closes the morning of the current day, doctor 2 submits the empty form,
\* a patient's submission is refused, patient 1 books the morning of day 0
\* with doctor 1, and midnight passes.
NextSchedule ==
  \/ \E f \in LedgerForms : ProvideAvailability(1, Doctor1, f)
  \/ ProvideAvailability(1, DoctorAccount(2), {})
  \/ ProvideAvailability(1, Patient1, {})
  \/ BookAppointment(1, Patient1, 1, RaceSlot)
  \/ NextDay

SpecSchedule == InitGrid /\ [][NextSchedule]_vars

\* C29: an availability submission changes only the submitting doctor's
\* records of the dates today .. today+6, each written with the flags of the
\* form (false where not ticked): every appointment, every treatment, every
\* other doctor's record and the doctor's records of other dates stay as
\* they are, so a Booked appointment held in a shift that is closed stays
\* Booked.
AvailabilityWritesOwnWeek ==
  [][\A p \in {Doctor1, DoctorAccount(2), Patient1}, f \in LedgerForms :
       ProvideAvailability(1, p, f) =>
         /\ UNCHANGED <<today, accounts, session, suspended, blacklisted, appts, treatments>>
         /\ \A r \in avail :
              (r.doctor # p.id \/ p.role # "doctor" \/ ~InRange(r.date))
                => r \in avail'
         /\ {r.id : r \in avail} \subseteq {r.id : r \in avail'}
         /\ \A r \in avail' \ avail :
              /\ p.role = "doctor"
              /\ r.doctor = p.id
              /\ InRange(r.date)
              /\ r.morning = (<<r.date - today, "morning">> \in f)
              /\ r.evening = (<<r.date - today, "evening">> \in f)]_vars

\* On day 1 doctor 1 has closed every shift of the week while the morning of
\* day 0, now past, keeps its record and its Booked appointment, and doctor 2
\* has records of its own.
ShiftClosedOverBooking ==
  /\ today = 1
  /\ req[1] = Done("avail", "Saved")
  /\ \E a \in appts : a.doctor = 1 /\ a.date = 0 /\ a.status = "Booked"
  /\ \E r \in avail : r.doctor = 1 /\ r.date = 0 /\ r.morning
  /\ \A r \in avail : (r.doctor = 1 /\ r.date >= 1) => ~r.morning
  /\ \E r \in avail : r.doctor = 1 /\ r.date = HorizonDays
  /\ \E r \in avail : r.doctor = 2


\* --------------------------------------------------------- lifecycle frame
\* The rows of the appointments table are the same but for the status of
\* one of them.
OnlyStatusOf(appt_id) ==
  /\ ApptIds(appts') = ApptIds(appts)
  /\ Cardinality(appts') = Cardinality(appts)
  /\ \A a \in appts :
       IF a.id = appt_id
         THEN \E st \in {"Booked", "Cancelled", "Completed"} :
                [a EXCEPT !.status = st] \in appts'
         ELSE a \in appts'

\* C30: an accepted cancel or complete request on an appointment changes
\* only that appointment's status; an accepted treatment request changes
\* only that appointment's status and its treatment.  Every other
\* appointment and treatment and every availability record stay as they
\* are, and so do the appointment's patient, doctor, date and time.
AcceptedRequestTouchesOnlyItsAppointment ==
  [][/\ \A w \in Workers, p \in Principals, a \in appts :
          /\ ( /\ IsApptPatient(p, a) \/ IsApptDoctor(p, a)
               /\ req'[w].op = "cancel"
               /\ CancelAppointment(w, p, a.id) )
             => /\ OnlyStatusOf(a.id)
                /\ UNCHANGED <<today, accounts, session, suspended, blacklisted, avail, treatments>>
          /\ ( /\ IsApptDoctor(p, a)
               /\ req'[w].op = "complete"
               /\ MarkComplete(w, p, a.id) )
             => /\ OnlyStatusOf(a.id)
                /\ UNCHANGED <<today, accounts, session, suspended, blacklisted, avail, treatments>>
     /\ \A w \in Workers :
          (req'[w] # req[w] /\ req'[w].op = "treat" /\ req'[w].pc = "commit")
            => UNCHANGED <<today, accounts, session, suspended, blacklisted, avail, appts, treatments>>
     /\ \A w \in Workers :
          (req[w].pc = "commit" /\ TreatmentCommit(w)) =>
            /\ OnlyStatusOf(req[w].appt)
            /\ UNCHANGED <<today, accounts, session, suspended, blacklisted, avail>>
            /\ \A t \in treatments : t.appt # req[w].appt => t \in treatments'
            /\ \A t \in treatments' \ treatments : t.appt = req[w].appt
            /\ {t.id : t \in treatments} \subseteq {t.id : t \in treatments'}]_vars

\* A treatment was saved for appointment 1 and a cancel of it accepted,
\* appointment 2 being Booked as before and the one treatment on file being
\* appointment 1's.
OnlyTargetTouched ==
  /\ req[1] = Done("treat", "Saved")
  /\ req[2] = Done("cancel", "Cancelled")
  /\ StatusOf(appts, 2) = {"Booked"}
  /\ StatusOf(appts, 1) # {"Booked"}
  /\ Cardinality(treatments) = 1
  /\ \A t \in treatments : t.appt = 1


\* ------------------------------------------------ login / doctor_login / logout
\* load_user: the row with the session's user id in the table the session's
\* role names (doctors for 'doctor', patients for anything else), if there
\* is such a row; Flask-Login's anonymous user otherwise.
Anonymous == [role |-> "none", id |-> 0]

LoadUser(cookie) ==
  IF cookie.user_id = 0 THEN Anonymous
  ELSE LET row == IF cookie.role = "doctor"
                    THEN DoctorAccount(cookie.user_id)
                    ELSE PatientAccount(cookie.user_id)
       IN  IF row \in accounts THEN row ELSE Anonymous

\* current_user.is_authenticated
Authenticated(b) == LoadUser(session[b]) # Anonymous

\* What a handler sees of the browser's session: session.get('role') and
\* current_user.id.
SessionPrincipal(b) == [role |-> session[b].role, id |-> session[b].user_id]

\* A patient login that sets the user id and leaves 'role' as it is.
LoginKeepsRole(w, b, patient_id, password_ok) ==
  /\ Free(w)
  /\ IF Authenticated(b)
       THEN /\ req' = [req EXCEPT ![w] = Done("login", "AlreadyIn")]
            /\ UNCHANGED session
     ELSE IF PatientAccount(patient_id) \notin accounts \/ ~password_ok
       THEN /\ req' = [req EXCEPT ![w] = Done("login", "Invalid")]
            /\ UNCHANGED session
     ELSE IF patient_id \in suspended
       THEN /\ req' = [req EXCEPT ![w] = Done("login", "Suspended")]
            /\ UNCHANGED session
     ELSE /\ session' = [session EXCEPT ![b].user_id = patient_id]
          /\ req' = [req EXCEPT ![w] = Done("login", "LoggedIn")]
  /\ UNCHANGED <<today, accounts, suspended, blacklisted, avail, appts, treatments>>

\* A patient login that does not look at is_blacklisted.
LoginAnyPatient(w, b, patient_id, password_ok) ==
  /\ Free(w)
  /\ IF Authenticated(b)
       THEN /\ req' = [req EXCEPT ![w] = Done("login", "AlreadyIn")]
            /\ UNCHANGED session
     ELSE IF PatientAccount(patient_id) \notin accounts \/ ~password_ok
       THEN /\ req' = [req EXCEPT ![w] = Done("login", "Invalid")]
            /\ UNCHANGED session
     ELSE /\ session' = [session EXCEPT ![b] =
                           [role |-> "patient", user_id |-> patient_id]]
          /\ req' = [req EXCEPT ![w] = Done("login", "LoggedIn")]
  /\ UNCHANGED <<today, accounts, suspended, blacklisted, avail, appts, treatments>>

\* login (POST): the patient with the e-mail, the password check, the
\* blacklist check, then session['role'] = 'patient' and login_user.
Login(w, b, patient_id, password_ok) ==
  /\ Free(w)
  /\ IF Authenticated(b)
       THEN /\ req' = [req EXCEPT ![w] = Done("login", "AlreadyIn")]
            /\ UNCHANGED session
     ELSE IF PatientAccount(patient_id) \notin accounts \/ ~password_ok
       THEN /\ req' = [req EXCEPT ![w] = Done("login", "Invalid")]
            /\ UNCHANGED session
     ELSE IF patient_id \in suspended
       THEN /\ req' = [req EXCEPT ![w] = Done("login", "Suspended")]
            /\ UNCHANGED session
     ELSE /\ session' = [session EXCEPT ![b] =
                           [role |-> "patient", user_id |-> patient_id]]
          /\ req' = [req EXCEPT ![w] = Done("login", "LoggedIn")]
  /\ UNCHANGED <<today, accounts, suspended, blacklisted, avail, appts, treatments>>

\* doctor_login (POST): session.clear(), session['role'] = 'doctor' and
\* login_user once the e-mail, the password and the blacklist check pass.
DoctorLogin(w, b, doctor_id, password_ok) ==
  /\ Free(w)
  /\ IF Authenticated(b)
       THEN /\ req' = [req EXCEPT ![w] = Done("doctor_login", "AlreadyIn")]
            /\ UNCHANGED session
     ELSE IF DoctorAccount(doctor_id) \notin accounts \/ ~password_ok
       THEN /\ req' = [req EXCEPT ![w] = Done("doctor_login", "Invalid")]
            /\ UNCHANGED session
     ELSE IF doctor_id \in blacklisted
       THEN /\ req' = [req EXCEPT ![w] = Done("doctor_login", "Suspended")]
            /\ UNCHANGED session
     ELSE /\ session' = [session EXCEPT ![b] =
                           [role |-> "doctor", user_id |-> doctor_id]]
          /\ req' = [req EXCEPT ![w] = Done("doctor_login", "LoggedIn")]
  /\ UNCHANGED <<today, accounts, suspended, blacklisted, avail, appts, treatments>>

\* logout: @login_required sends an anonymous request to the login page;
\* otherwise session.pop('role') and logout_user().
Logout(w, b) ==
  /\ Free(w)
  /\ IF ~Authenticated(b)
       THEN /\ req' = [req EXCEPT ![w] = Done("logout", "LoginRequired")]
            /\ UNCHANGED session
       ELSE /\ session' = [session EXCEPT ![b] = NoSession]
            /\ req' = [req EXCEPT ![w] = Done("logout", "LoggedOut")]
  /\ UNCHANGED <<today, accounts, suspended, blacklisted, avail, appts, treatments>>

\* register (POST): a new Patient row unless the e-mail is taken; SQLite
\* gives it the id after the largest one in the table.  The session is
\* not written.
NewPatientId ==
  LET ids == {q.id : q \in {r \in accounts : r.role = "patient"}}
  IN  IF ids = {} THEN 1 ELSE (CHOOSE i \in ids : \A j \in ids : j <= i) + 1

Register(w, b, taken) ==
  /\ Free(w)
  /\ IF Authenticated(b)
       THEN /\ req' = [req EXCEPT ![w] = Done("register", "AlreadyIn")]
            /\ UNCHANGED accounts
     ELSE IF taken
       THEN /\ \E r \in accounts : r.role = "patient"
            /\ req' = [req EXCEPT ![w] = Done("register", "EmailTaken")]
            /\ UNCHANGED accounts
     ELSE /\ NewPatientId \in Patients
          /\ accounts' = accounts \cup {PatientAccount(NewPatientId)}
          /\ req' = [req EXCEPT ![w] = Done("register", "Registered")]
  /\ UNCHANGED <<today, session, suspended, blacklisted, avail, appts, treatments>>

\* ----------------------------- admin_blacklist_patient / admin_whitelist_patient
AdminBlacklistPatient(patient_id) ==
  /\ PatientAccount(patient_id) \in accounts
  /\ suspended' = suspended \cup {patient_id}
  /\ UNCHANGED <<today, accounts, session, blacklisted, avail, appts, treatments, req>>

AdminWhitelistPatient(patient_id) ==
  /\ PatientAccount(patient_id) \in accounts
  /\ suspended' = suspended \ {patient_id}
  /\ UNCHANGED <<today, accounts, session, blacklisted, avail, appts, treatments, req>>

\* ----------------------------------------------------------------- sessions
\* Two browsers log in and out as either patient and as either doctor,
\* with the right or a wrong password, register, and send requests while
\* logged in: a booking of the morning of day 0 with doctor 1, the doctor's
\* availability form, the patient dashboard.  The administrator suspends
\* and restores patient 2 and doctor 1 and deletes the accounts of
\* patient 2 and of doctor 2.  One worker handles the requests.
NextSession ==
  \/ \E b \in Browsers, p \in Patients, ok \in BOOLEAN : Login(1, b, p, ok)
  \/ \E b \in Browsers, taken \in BOOLEAN : Register(1, b, taken)
  \/ \E b \in Browsers, d \in Doctors, ok \in BOOLEAN : DoctorLogin(1, b, d, ok)
  \/ \E b \in Browsers : Logout(1, b)
  \/ \E b \in Browsers :
       /\ Authenticated(b)
       /\ BookSubmit(1, SessionPrincipal(b), 1, RaceSlot)
  \/ BookCommit(1)
  \/ \E b \in Browsers :
       /\ Authenticated(b)
       /\ ProvideAvailability(1, SessionPrincipal(b), TerminationForm)
  \/ \E b \in Browsers :
       /\ Authenticated(b)
       /\ Dashboard(1, SessionPrincipal(b))
  \/ AdminBlacklistPatient(2)
  \/ AdminWhitelistPatient(2)
  \/ AdminBlacklistDoctor(1)
  \/ AdminWhitelistDoctor(1)
  \/ AdminDeletePatient(2)
  \/ AdminDeleteDoctor(2)

SpecSession == InitGrid /\ [][NextSession]_vars

\* C31: in every reachable state a session that holds a user id holds the
\* role of the login it came from: a session changes only by a patient
\* login, which leaves role 'patient' and the id of a patient account, by a
\* doctor login, which leaves role 'doctor' and the id of a doctor account,
\* or by a logout, which leaves neither; no request made while logged in
\* changes it.  So load_user looks the id up in the table that issued it.
SessionRoleIsLoginRole ==
  /\ [](\A b \in Browsers :
          /\ session[b].user_id # 0 => session[b].role \in Roles
          /\ session[b].user_id = 0 => session[b].role = "none")
  /\ [][\A b \in Browsers :
          session'[b] # session[b] =>
            \/ /\ req'[1] = Done("login", "LoggedIn")
               /\ session'[b].role = "patient"
               /\ PatientAccount(session'[b].user_id) \in accounts
               /\ ~Authenticated(b)
            \/ /\ req'[1] = Done("doctor_login", "LoggedIn")
               /\ session'[b].role = "doctor"
               /\ DoctorAccount(session'[b].user_id) \in accounts
               /\ ~Authenticated(b)
            \/ /\ req'[1] = Done("logout", "LoggedOut")
               /\ session'[b] = NoSession]_vars

\* Browser 1 has logged in as patient 1 over the session a deleted doctor
\* left behind there and has booked, while browser 2, logged in as doctor 1,
\* has just sent the availability form.
PatientAfterDoctor ==
  /\ session[1] = [role |-> "patient", user_id |-> 1]
  /\ session[2] = [role |-> "doctor", user_id |-> 1]
  /\ DoctorAccount(2) \notin accounts
  /\ \E a \in appts : a.patient = 1
  /\ req[1] = Done("avail", "Saved")

\* C32: a booking submitted from a session whose role is 'doctor' is
\* answered "Doctors cannot book" whatever it carries, and no booking
\* submission writes an Appointment before its commit; a submission that
\* goes on to commit came from the session of a patient whose account
\* exists and carries that patient's id; the commit adds exactly one
\* Appointment, with that id as its patient; and nothing else adds one.
OnlyPatientsBook ==
  [][/\ \A b \in Browsers :
          ( /\ req'[1].op = "book"
            /\ Authenticated(b)
            /\ BookSubmit(1, SessionPrincipal(b), 1, RaceSlot) ) =>
            /\ appts' = appts
            /\ session[b].role = "doctor" =>
                 req'[1] = Done("book", "DoctorsCannotBook")
            /\ req'[1].pc = "commit" =>
                 /\ session[b].role = "patient"
                 /\ PatientAccount(session[b].user_id) \in accounts
                 /\ req'[1].patient = session[b].user_id
     /\ (req[1].pc = "commit" /\ BookCommit(1)) =>
          \E a \in appts' \ appts :
            /\ appts' = appts \cup {a}
            /\ a.patient = req[1].patient
     /\ ~(appts' \subseteq appts) => (req[1].pc = "commit" /\ BookCommit(1))
    ]_vars

\* Doctor 1, who works the morning of day 0, has just been refused a
\* booking of that morning with themselves, which patient 1 holds.
DoctorRefusedBooking ==
  /\ req[1] = Done("book", "DoctorsCannotBook")
  /\ \E b \in Browsers : session[b] = [role |-> "doctor", user_id |-> 1]
  /\ \E r \in avail : r.doctor = 1
  /\ \E a \in appts : a.patient = 1 /\ a.doctor = 1 /\ a.status = "Booked"

\* C33: a login with the right password for an account that is blacklisted
\* when the handler reads it is answered "suspended" and leaves the
\* session as it was, unauthenticated; the same login for an account that
\* is not blacklisted logs the browser in as that account; and whitelisting
\* leaves the account not blacklisted.  This holds for the patient login
\* and for the doctor login alike.
BlacklistedCannotLogIn ==
  [][/\ \A b \in Browsers, p \in Patients :
          ( /\ req'[1].op = "login"
            /\ ~Authenticated(b)
            /\ PatientAccount(p) \in accounts
            /\ Login(1, b, p, TRUE) ) =>
            IF p \in suspended
              THEN /\ req'[1] = Done("login", "Suspended")
                   /\ session' = session
                   /\ ~Authenticated(b)'
              ELSE /\ req'[1] = Done("login", "LoggedIn")
                   /\ LoadUser(session'[b]) = PatientAccount(p)
     /\ \A b \in Browsers, d \in Doctors :
          ( /\ req'[1].op = "doctor_login"
            /\ ~Authenticated(b)
            /\ DoctorAccount(d) \in accounts
            /\ DoctorLogin(1, b, d, TRUE) ) =>
            IF d \in blacklisted
              THEN /\ req'[1] = Done("doctor_login", "Suspended")
                   /\ session' = session
                   /\ ~Authenticated(b)'
              ELSE /\ req'[1] = Done("doctor_login", "LoggedIn")
                   /\ LoadUser(session'[b]) = DoctorAccount(d)
     /\ AdminWhitelistPatient(2) => 2 \notin suspended'
     /\ AdminWhitelistDoctor(1) => 1 \notin blacklisted'
     /\ AdminBlacklistPatient(2) => 2 \in suspended'
     /\ AdminBlacklistDoctor(1) => 1 \in blacklisted'
    ]_vars

\* Patient 2, suspended, has just been refused at the login from browser 2,
\* which stays logged out, while browser 1 is logged in as doctor 2 and
\* doctor 1 is blacklisted.
SuspendedPatientRefused ==
  /\ req[1] = Done("login", "Suspended")
  /\ 2 \in suspended
  /\ 1 \in blacklisted
  /\ session[1] = [role |-> "doctor", user_id |-> 2]
  /\ ~Authenticated(2)

\* C34: a grid page has one entry for each of the seven days from today on,
\* in that order, each with the 08:00 slot and then the 16:00 slot and
\* nothing else; each day's two slots are resolved from one of the rows the
\* availability query returned for that day (from none if it returned
\* none) and from the Booked appointments of the doctor at exactly that
\* date and time; and the request changes nothing that is stored.
GridCoversHorizon ==
  [][\A d \in Doctors :
       ( /\ req'[1] # req[1]
         /\ req'[1].op = "grid"
         /\ req'[1].code = "Page"
         /\ req'[1].doctor = d
         /\ BookPage(1, Patient1, d) ) =>
         LET grid == req'[1].grid IN
           /\ DOMAIN grid = 1..HorizonDays
           /\ \A i \in 1..HorizonDays :
                LET rows == {a \in avail : a.doctor = d /\ a.date = today + (i - 1)}
                    Taken(t) == \E a \in appts : /\ a.doctor = d
                                                 /\ a.date = today + (i - 1)
                                                 /\ a.time = t
                                                 /\ a.status = "Booked"
                IN  /\ grid[i].date = today + (i - 1)
                    /\ DOMAIN grid[i].slots = 1..2
                    /\ grid[i].slots[1].time = MorningHour * 60
                    /\ grid[i].slots[2].time = EveningHour * 60
                    /\ IF rows = {}
                         THEN /\ ~grid[i].slots[1].is_available
                              /\ ~grid[i].slots[2].is_available
                         ELSE \E a \in rows :
                                /\ grid[i].slots[1].is_available
                                     = (a.morning /\ ~Taken(MorningHour * 60))
                                /\ grid[i].slots[2].is_available
                                     = (a.evening /\ ~Taken(EveningHour * 60))
           /\ UNCHANGED <<today, accounts, session, suspended, blacklisted,
                          avail, appts, treatments>>]_vars

\* The page of doctor 1 shows the morning of today, which the doctor works
\* and a patient holds, as not available, and the page has a day with an
\* open slot; doctor 2, who has no rows, could be shown too.
GridWithTakenAndOpenSlot ==
  /\ req[1].op = "grid"
  /\ req[1].code = "Page"
  /\ req[1].doctor = 1
  /\ StoredFlag(1, today, "Morning")
  /\ \E a \in appts : /\ a.doctor = 1 /\ a.date = today
                      /\ a.time = MorningHour * 60 /\ a.status = "Booked"
  /\ ~req[1].grid[1].slots[1].is_available
  /\ \E i \in 1..HorizonDays, j \in 1..2 : req[1].grid[i].slots[j].is_available

\* The page of doctor 2, who has no availability rows: seven days, nothing
\* available.
GridOfDoctorWithoutRows ==
  /\ req[1].op = "grid"
  /\ req[1].code = "Page"
  /\ req[1].doctor = 2
  /\ \A a \in avail : a.doctor # 2
  /\ Len(req[1].grid) = HorizonDays

=============================================================================
